---- MODULE Spec2Model ----
(***************************************************************************)
(* Document registry / version extractor / pipeline run manager.           *)
(*                                                                         *)
(* A text is a sequence of atoms.  An atom is either one of the characters *)
(* the parsers look at ("-", ":", "\n", " ", the two quotes, "~", ".", a   *)
(* digit) or a maximal run of letters written as one word ("doc_key").     *)
(* A Python str is such a sequence; Python's None is the value None.       *)
(***************************************************************************)
EXTENDS Integers, Sequences, FiniteSets, TLC

\* ------------------------------------------------------------------ bounds
MaxDocs == 3

MaxSteps == 3

MaxValueLen == 3

\* ------------------------------------------------------- Python str helpers
None == <<"<None>">>

Str(w) == <<w>>

IsSpace(c) == c \in {" ", "\n", "\t"}

IsDigit(c) == c \in {"0", "1", "2", "3", "4", "5", "6", "7", "8", "9"}

RECURSIVE LStrip(_)
LStrip(s) ==
  IF s # <<>> /\ IsSpace(Head(s)) THEN LStrip(Tail(s)) ELSE s

RECURSIVE RStrip(_)
RStrip(s) ==
  IF s # <<>> /\ IsSpace(s[Len(s)]) THEN RStrip(SubSeq(s, 1, Len(s) - 1)) ELSE s

\* str.strip()
Strip(s) == RStrip(LStrip(s))

\* str.startswith(pat)
StartsWith(s, pat) == Len(s) >= Len(pat) /\ SubSeq(s, 1, Len(pat)) = pat

\* str.endswith(pat)
EndsWith(s, pat) ==
  Len(s) >= Len(pat) /\ SubSeq(s, Len(s) - Len(pat) + 1, Len(s)) = pat

\* str.find(pat): the first index at which pat occurs in s, 0 when it does not
Find(s, pat) ==
  LET hits == {i \in 1..(Len(s) - Len(pat) + 1) : SubSeq(s, i, i + Len(pat) - 1) = pat}
  IN IF hits = {} THEN 0 ELSE CHOOSE i \in hits : \A j \in hits : i <= j

\* str.split(sep, maxsplit)
RECURSIVE Split(_, _, _)
Split(s, sep, maxsplit) ==
  LET i == Find(s, sep)
  IN IF maxsplit = 0 \/ i = 0
       THEN <<s>>
       ELSE <<SubSeq(s, 1, i - 1)>>
            \o Split(SubSeq(s, i + Len(sep), Len(s)), sep, maxsplit - 1)

\* str.split(sep) without a limit: a text has at most Len(s) separators
SplitAll(s, sep) == Split(s, sep, Len(s))

\* str.lower() on the words the texts use
LowerAtom(c) ==
  CASE c = "NULL" -> "null"
    [] c = "Null" -> "null"
    [] OTHER -> c

Lower(s) == [i \in 1..Len(s) |-> LowerAtom(s[i])]

\* value[1:-1]
Inner(s) == SubSeq(s, 2, Len(s) - 1)

Marker == <<"-", "-", "-">>

\* ------------------------------------------------- DocRegistryBuilder parser
\* lines 79-87: one layer of matching quotes, then null coercion
BuilderValue(raw) ==
  LET value == Strip(raw)
      unq == IF StartsWith(value, Str("\"")) /\ EndsWith(value, Str("\""))
               THEN Inner(value)
             ELSE IF StartsWith(value, Str("'")) /\ EndsWith(value, Str("'"))
               THEN Inner(value)
             ELSE value
  IN IF Lower(unq) \in {Str("null"), Str("~"), <<>>} THEN None ELSE unq

\* lines 71-89: the metadata dict after the lines have been read in order
RECURSIVE BuilderLines(_, _)
BuilderLines(lines, metadata) ==
  IF lines = <<>> THEN metadata
  ELSE LET line == Strip(Head(lines))
           kv == Split(line, Str(":"), 1)
           key == Strip(kv[1])
       IN IF Find(line, Str(":")) # 0
            THEN BuilderLines(Tail(lines),
                   [k \in DOMAIN metadata \cup {key} |->
                      IF k = key THEN BuilderValue(kv[2]) ELSE metadata[k]])
            ELSE BuilderLines(Tail(lines), metadata)

\* extract_frontmatter returning None
NoMetadata == [some |-> FALSE, map |-> <<>>]

\* lines 59-91: the parse of a text that was read
BuilderParse(content) ==
  IF ~StartsWith(content, Marker) THEN NoMetadata
  ELSE LET parts == Split(content, Marker, 2)
       IN IF Len(parts) < 3 THEN NoMetadata
          ELSE LET metadata ==
                     BuilderLines(SplitAll(Strip(parts[2]), Str("\n")), <<>>)
               IN IF DOMAIN metadata # {} THEN [some |-> TRUE, map |-> metadata]
                  ELSE NoMetadata

\* ------------------------------------------- DocumentVersionExtractor parser
\* str.strip(chars) for one character
RECURSIVE LStripChar(_, _)
LStripChar(s, c) ==
  IF s # <<>> /\ Head(s) = c THEN LStripChar(Tail(s), c) ELSE s

RECURSIVE RStripChar(_, _)
RStripChar(s, c) ==
  IF s # <<>> /\ s[Len(s)] = c THEN RStripChar(SubSeq(s, 1, Len(s) - 1), c) ELSE s

StripChar(s, c) == RStripChar(LStripChar(s, c), c)

\* lines 62-64: every leading and trailing quote, then null coercion
ExtractorValue(raw) ==
  LET value == StripChar(StripChar(Strip(raw), "\""), "'")
  IN IF Lower(value) \in {Str("null"), Str("~"), <<>>} THEN None ELSE value

\* lines 57-65
RECURSIVE ExtractorLines(_, _)
ExtractorLines(lines, metadata) ==
  IF lines = <<>> THEN metadata
  ELSE LET line == Head(lines)
           kv == Split(line, Str(":"), 1)
           key == Strip(kv[1])
       IN IF Find(line, Str(":")) # 0
            THEN ExtractorLines(Tail(lines),
                   [k \in DOMAIN metadata \cup {key} |->
                      IF k = key THEN ExtractorValue(kv[2]) ELSE metadata[k]])
            ELSE ExtractorLines(Tail(lines), metadata)

\* lines 50-67: the parse of a text that was read
ExtractorParse(content) ==
  IF ~StartsWith(content, Marker) THEN NoMetadata
  ELSE LET parts == Split(content, Marker, 2)
       IN IF Len(parts) < 3 THEN NoMetadata
          ELSE LET metadata ==
                     ExtractorLines(SplitAll(Strip(parts[2]), Str("\n")), <<>>)
               IN IF DOMAIN metadata # {} THEN [some |-> TRUE, map |-> metadata]
                  ELSE NoMetadata

\* ----------------------------------------------------------- document trees
\* rglob("*.md") under docs/ and plans/: the files are 1..MaxDocs, the first
\* half (rounded up, at least two when there are three) under docs/, the rest
\* under plans/.  A root without files behaves like a root that does not exist.
Paths == 1..MaxDocs

InDocs(p) == 2 * p <= MaxDocs + 1

Line(k, v) == <<k, ":", " ">> \o v \o <<"\n">>

Document(lines) == Marker \o <<"\n">> \o lines \o Marker \o <<"\n", "body">>

Semver100 == <<"1", ".", "0", ".", "0">>

Semver210 == <<"2", ".", "1", ".", "0">>

\* key a, every field valid
TextA1 ==
  Document(Line("doc_key", Str("a")) \o Line("semver", Semver100)
           \o Line("status", Str("active")) \o Line("effective_date", Str("d"))
           \o Line("owner", Str("o")) \o Line("contract_type", Str("policy")))

\* key a again (quoted), another version, deprecated, with supersedes_version
TextA2 ==
  Document(Line("doc_key", <<"\"", "a", "\"">>) \o Line("semver", Semver210)
           \o Line("status", Str("deprecated")) \o Line("effective_date", Str("d"))
           \o Line("owner", Str("o")) \o Line("contract_type", Str("intent"))
           \o Line("supersedes_version", Semver100))

\* key b, valid, frozen, owner present but null
TextB ==
  Document(Line("doc_key", Str("b")) \o Line("semver", Semver100)
           \o Line("status", Str("frozen")) \o Line("effective_date", Str("d"))
           \o Line("owner", Str("NULL")) \o Line("contract_type", Str("execution_contract")))

\* doc_key present but null ("doc_key: ~"), everything else valid
TextNullKey ==
  Document(Line("doc_key", Str("~")) \o Line("semver", Semver100)
           \o Line("status", Str("active")) \o Line("effective_date", Str("d"))
           \o Line("owner", Str("o")) \o Line("contract_type", Str("policy")))

\* key a with semver 2.1 (no patch component)
TextBadSemver ==
  Document(Line("doc_key", Str("a")) \o Line("semver", <<"2", ".", "1">>)
           \o Line("status", Str("active")) \o Line("effective_date", Str("d"))
           \o Line("owner", Str("o")) \o Line("contract_type", Str("policy")))

\* key b without owner and without effective_date
TextMissing ==
  Document(Line("doc_key", Str("b")) \o Line("semver", Semver100)
           \o Line("status", Str("active")) \o Line("contract_type", Str("policy")))

\* key b with status "Active" (wrong case)
TextBadStatus ==
  Document(Line("doc_key", Str("b")) \o Line("semver", Semver100)
           \o Line("status", Str("Active")) \o Line("effective_date", Str("d"))
           \o Line("owner", Str("o")) \o Line("contract_type", Str("policy")))

\* key b with contract_type "plan"
TextBadType ==
  Document(Line("doc_key", Str("b")) \o Line("semver", Semver100)
           \o Line("status", Str("frozen")) \o Line("effective_date", Str("d"))
           \o Line("owner", Str("o")) \o Line("contract_type", Str("plan")))

\* a header without doc_key
TextNoKey == Document(Line("title", Str("x")))

\* no header at all
TextPlain == <<"body", "\n">>

Readable(text) == [readable |-> TRUE, text |-> text]

\* read_text raises (permission, encoding)
Unreadable == [readable |-> FALSE, text |-> <<>>]

Files ==
  {Readable(t) : t \in {TextA1, TextA2, TextB, TextNullKey, TextBadSemver,
                        TextMissing, TextBadStatus, TextBadType, TextNoKey,
                        TextPlain}}
  \cup {Unreadable}

\* the atoms of the header values the two parsers are run on: the two quotes,
\* a letter, a null word in upper case, the tilde, a blank
ValueAtoms == {"\"", "'", "a", "NULL", "~", " "}

Values == UNION {[1..n -> ValueAtoms] : n \in 0..MaxValueLen}

\* headers of one line "doc_key: value" for every value, and the shapes the
\* parsers tell apart: no marker, no closing marker, no line with a colon, an
\* indented line, a key given twice, a value holding a colon
ParseTexts ==
  {Document(Line("doc_key", v)) : v \in Values}
  \cup {TextPlain,
        Marker \o <<"\n">> \o Line("doc_key", Str("a")),
        Document(<<"a", "\n">>),
        Document(<<" ", " ">> \o Line("doc_key", <<"'", "a", "'">>)),
        Document(Line("doc_key", Str("a")) \o Line("doc_key", <<"\"", "'", "a">>)),
        Document(Line("doc_key", <<"\"", "a", ":", "a", "\"">>))}

ParseFiles == {Readable(t) : t \in ParseTexts}

\* ------------------------------------------------------ DocRegistryBuilder
Error(kind, path, detail) == [kind |-> kind, path |-> path, detail |-> detail]

\* the builder's parse of each file of the model, worked out once
BuilderParsed ==
  [f \in Files \cup ParseFiles |-> IF f.readable THEN BuilderParse(f.text) ELSE NoMetadata]

\* extract_frontmatter without the try/except of lines 53-57
extract_frontmatter_uncaught(file, file_path) ==
  IF ~file.readable
    THEN [raised |-> TRUE, errors |-> <<>>, metadata |-> NoMetadata]
    ELSE [raised |-> FALSE, errors |-> <<>>, metadata |-> BuilderParsed[file]]

\* lines 46-91
DocRegistryBuilder_extract_frontmatter(file, file_path) ==
  IF ~file.readable
    THEN [raised |-> FALSE, errors |-> <<Error("read", file_path, <<>>)>>,
          metadata |-> NoMetadata]
    ELSE [raised |-> FALSE, errors |-> <<>>, metadata |-> BuilderParsed[file]]

required_fields ==
  <<"doc_key", "semver", "status", "effective_date", "owner", "contract_type">>

valid_statuses == {Str("active"), Str("deprecated"), Str("frozen")}

valid_types == {Str("policy"), Str("intent"), Str("execution_contract")}

\* str(value)
PyStr(v) == IF v = None THEN Str("None") ELSE v

\* re.match(r'^\d+\.\d+\.\d+$', s); s holds no newline (values come from
\* stripped lines), so $ is the end of s
semver_pattern(s) ==
  LET runs == SplitAll(s, Str("."))
  IN /\ Len(runs) = 3
     /\ \A i \in 1..3 : runs[i] # <<>> /\ \A j \in 1..Len(runs[i]) : IsDigit(runs[i][j])

\* validate_frontmatter with the semver test of lines 118-125 left out
validate_frontmatter_no_semver(metadata, file_path) ==
  LET missing == SelectSeq(required_fields, LAMBDA f : Str(f) \notin DOMAIN metadata)
  IN IF missing # <<>>
       THEN <<Error("missing", file_path, missing)>>
     ELSE IF metadata[Str("status")] \notin valid_statuses
       THEN <<Error("status", file_path, metadata[Str("status")])>>
     ELSE IF metadata[Str("contract_type")] \notin valid_types
       THEN <<Error("contract_type", file_path, metadata[Str("contract_type")])>>
     ELSE <<>>

\* lines 93-145: the diagnostics appended to errors; True is returned iff none
validate_frontmatter(metadata, file_path) ==
  LET missing == SelectSeq(required_fields, LAMBDA f : Str(f) \notin DOMAIN metadata)
  IN IF missing # <<>>
       THEN <<Error("missing", file_path, missing)>>
     ELSE IF ~semver_pattern(PyStr(metadata[Str("semver")]))
       THEN <<Error("semver", file_path, metadata[Str("semver")])>>
     ELSE IF metadata[Str("status")] \notin valid_statuses
       THEN <<Error("status", file_path, metadata[Str("status")])>>
     ELSE IF metadata[Str("contract_type")] \notin valid_types
       THEN <<Error("contract_type", file_path, metadata[Str("contract_type")])>>
     ELSE <<>>

\* dict.get(key): the value, or None
Get(metadata, key) == IF key \in DOMAIN metadata THEN metadata[key] ELSE None

\* lines 191-200
DocumentRecord(metadata, file_path) ==
  [doc_key |-> metadata[Str("doc_key")],
   path |-> file_path,
   semver |-> metadata[Str("semver")],
   status |-> metadata[Str("status")],
   effective_date |-> metadata[Str("effective_date")],
   owner |-> metadata[Str("owner")],
   contract_type |-> metadata[Str("contract_type")],
   supersedes_version |-> Get(metadata, Str("supersedes_version"))]

\* the registry is a dict in insertion order: a sequence of records, one per key
HasKey(dict, doc_key) == \E i \in 1..Len(dict) : dict[i].doc_key = doc_key

Lookup(dict, doc_key) == dict[CHOOSE i \in 1..Len(dict) : dict[i].doc_key = doc_key]

\* dict[key] = item on a dict in insertion order
SetItem(dict, item) ==
  IF HasKey(dict, item.doc_key)
    THEN [i \in 1..Len(dict) |-> IF dict[i].doc_key = item.doc_key THEN item ELSE dict[i]]
    ELSE Append(dict, item)

\* lines 176-201 with the duplicate test of lines 182-188 replaced by an
\* unconditional assignment (the later document overwrites the earlier)
register_overwrite(b, metadata, verrs, file_path) ==
  IF verrs # <<>> THEN [b EXCEPT !.errors = @ \o verrs]
  ELSE [b EXCEPT !.registry = SetItem(@, DocumentRecord(metadata, file_path)),
                 !.doc_count = @ + 1]

\* lines 176-201: verrs is what validate_frontmatter appended to errors
register(b, metadata, verrs, file_path) ==
  IF verrs # <<>> THEN [b EXCEPT !.errors = @ \o verrs]
  ELSE IF HasKey(b.registry, metadata[Str("doc_key")])
    THEN [b EXCEPT !.duplicates =
            @ \o <<<<metadata[Str("doc_key")],
                     Lookup(b.registry, metadata[Str("doc_key")]).path,
                     file_path>>>>]
    ELSE [b EXCEPT !.registry = @ \o <<DocumentRecord(metadata, file_path)>>,
                   !.doc_count = @ + 1]

\* lines 168-177: x is what extract_frontmatter returned and appended
examine(b, x, file_path) ==
  IF x.raised THEN [b EXCEPT !.errors = @ \o x.errors, !.raised = TRUE]
  ELSE IF ~x.metadata.some THEN [b EXCEPT !.errors = @ \o x.errors]
  ELSE IF Str("doc_key") \notin DOMAIN x.metadata.map THEN [b EXCEPT !.errors = @ \o x.errors]
  ELSE register([b EXCEPT !.errors = @ \o x.errors], x.metadata.map,
                validate_frontmatter(x.metadata.map, file_path), file_path)

\* lines 166-201: the body of the loop for one file, from the builder state b
\* (registry, duplicates, errors, doc_count)
scan_one(b, file, file_path) ==
  examine(b, DocRegistryBuilder_extract_frontmatter(file, file_path), file_path)

\* lines 218-244: the result, and the problems the report prints
report_status(b) ==
  IF b.duplicates # <<>>
    THEN [success |-> FALSE, duplicates |-> b.duplicates, errors |-> <<>>]
  ELSE IF b.errors # <<>>
    THEN [success |-> FALSE, duplicates |-> <<>>, errors |-> b.errors]
  ELSE [success |-> TRUE, duplicates |-> <<>>, errors |-> <<>>]

\* ord(c) of the characters the doc_keys of Files are written with
Ord(c) ==
  CASE c = "a" -> 97
    [] c = "b" -> 98
    [] OTHER -> 0

\* s < t on str
RECURSIVE StrLess(_, _)
StrLess(s, t) ==
  IF t = <<>> THEN FALSE
  ELSE IF s = <<>> THEN TRUE
  ELSE IF Head(s) = Head(t) THEN StrLess(Tail(s), Tail(t))
  ELSE Ord(Head(s)) < Ord(Head(t))

\* sorted(dct.items()) compares the keys: None and a str do not compare
Sortable(dict) ==
  \A i, j \in 1..Len(dict) :
    i # j => (dict[i].doc_key = None) = (dict[j].doc_key = None)

RECURSIVE InsertSorted(_, _)
InsertSorted(sorted, item) ==
  IF sorted = <<>> \/ StrLess(item.doc_key, Head(sorted).doc_key)
    THEN <<item>> \o sorted
    ELSE <<Head(sorted)>> \o InsertSorted(Tail(sorted), item)

RECURSIVE SortedItems(_)
SortedItems(dict) ==
  IF dict = <<>> THEN <<>>
  ELSE InsertSorted(SortedItems(SubSeq(dict, 1, Len(dict) - 1)), dict[Len(dict)])

\* json.dump(..., sort_keys=True): the key None is written "null"
JsonKey(doc_key) == IF doc_key = None THEN Str("null") ELSE doc_key

JsonObject(items) == [i \in 1..Len(items) |-> [key |-> JsonKey(items[i].doc_key), value |-> items[i]]]

NoFile == [exists |-> FALSE, complete |-> FALSE, object |-> <<>>]

\* open(path, 'w') followed by a json.dump that raised in sorted(): "{" and the
\* first indentation are all that was written
TruncatedFile == [exists |-> TRUE, complete |-> FALSE, object |-> <<>>]

JsonFile(object) == [exists |-> TRUE, complete |-> TRUE, object |-> object]

\* save_registry with sort_keys left out: the items in insertion order
save_registry_unsorted(b) ==
  [raised |-> FALSE, file |-> JsonFile(JsonObject(b.registry))]

\* lines 205-216
save_registry(b) ==
  IF Sortable(b.registry)
    THEN [raised |-> FALSE, file |-> JsonFile(JsonObject(SortedItems(b.registry)))]
    ELSE [raised |-> TRUE, file |-> TruncatedFile]

\* ------------------------------------------------ DocumentVersionExtractor
\* the extractor's parse of each file of the model, worked out once
ExtractorParsed ==
  [f \in Files \cup ParseFiles |-> IF f.readable THEN ExtractorParse(f.text) ELSE NoMetadata]

\* lines 43-67: a read failure is silent
DocumentVersionExtractor_extract_frontmatter(file) == ExtractorParsed[file]

required == <<"doc_key", "semver", "status", "effective_date", "contract_type">>

\* lines 106-113
DocumentVersion(metadata, file_path) ==
  [doc_key |-> metadata[Str("doc_key")],
   semver |-> metadata[Str("semver")],
   status |-> metadata[Str("status")],
   effective_date |-> metadata[Str("effective_date")],
   contract_type |-> metadata[Str("contract_type")],
   path |-> file_path]

\* bool(s) of an Optional[str]
Truthy(s) == s # None /\ s # <<>>

\* lines 92-114 keeping the first document of a key instead of the last
retain_first_wins(e, m, file_path, status_filter_arg) ==
  IF ~m.some \/ Str("doc_key") \notin DOMAIN m.map THEN e
  ELSE IF Truthy(status_filter_arg) /\ Get(m.map, Str("status")) # status_filter_arg THEN e
  ELSE IF ~\A i \in 1..Len(required) : Str(required[i]) \in DOMAIN m.map THEN e
  ELSE IF HasKey(e.versions, m.map[Str("doc_key")]) THEN [e EXCEPT !.count = @ + 1]
  ELSE [e EXCEPT !.versions = SetItem(@, DocumentVersion(m.map, file_path)),
                 !.count = @ + 1]

\* lines 92-114 with the status test of lines 95-97 left out
retain_unfiltered(e, m, file_path, status_filter_arg) ==
  IF ~m.some \/ Str("doc_key") \notin DOMAIN m.map THEN e
  ELSE IF ~\A i \in 1..Len(required) : Str(required[i]) \in DOMAIN m.map THEN e
  ELSE [e EXCEPT !.versions = SetItem(@, DocumentVersion(m.map, file_path)),
                 !.count = @ + 1]

\* lines 92-114: what the loop does with the metadata m of one file, from
\* the extractor state e (versions, count)
retain(e, m, file_path, status_filter_arg) ==
  IF ~m.some \/ Str("doc_key") \notin DOMAIN m.map THEN e
  ELSE IF Truthy(status_filter_arg) /\ Get(m.map, Str("status")) # status_filter_arg THEN e
  ELSE IF ~\A i \in 1..Len(required) : Str(required[i]) \in DOMAIN m.map THEN e
  ELSE [e EXCEPT !.versions = SetItem(@, DocumentVersion(m.map, file_path)),
                 !.count = @ + 1]

\* lines 91-114: the body of the loop for one file
extract_one(e, file, file_path, status_filter_arg) ==
  retain(e, DocumentVersionExtractor_extract_frontmatter(file), file_path, status_filter_arg)

\* lines 39-41: a fresh extractor
NewExtractor == [versions |-> <<>>, count |-> 0]

\* lines 79-116 on a fresh extractor: the files in the order rglob yields them
RECURSIVE scan_documents(_, _, _, _)
scan_documents(e, files, order, status_filter_arg) ==
  IF order = <<>> THEN e
  ELSE scan_documents(extract_one(e, files[Head(order)], Head(order), status_filter_arg),
                      files, Tail(order), status_filter_arg)

\* lines 129-134
to_simple_dict(e) ==
  [i \in 1..Len(e.versions) |->
     [doc_key |-> e.versions[i].doc_key, semver |-> e.versions[i].semver]]

\* lines 118-123
to_dict(e) == e.versions

\* ----------------------------------------------------- PipelineRunManager
run_id == "R1"

\* json.dump of a snapshot: the two mappings as JSON objects
JsonSimple(items) ==
  [i \in 1..Len(items) |-> [key |-> JsonKey(items[i].doc_key), value |-> items[i].semver]]

JsonSnapshot(snapshot, simple, details) ==
  [snapshot EXCEPT !.active_policies = JsonSimple(simple),
                   !.full_details = JsonObject(details)]

\* a file holding one complete JSON document
DocumentFile(document) == [exists |-> TRUE, complete |-> TRUE, object |-> <<document>>]

\* lines 30-64: the snapshot returned and the file left behind; now is the
\* reading of datetime.utcnow() at line 49.  json.dump(sort_keys=True) sorts
\* the keys of active_policies and raises when None and a str are among them,
\* after open(..., 'w') has truncated the file.
\* lines 47-54
Snapshot(e, now) ==
  [run_id |-> run_id,
   timestamp |-> now,
   event |-> "policy_snapshot",
   active_policies |-> to_simple_dict(e),
   policy_count |-> e.count,
   full_details |-> to_dict(e)]

\* lines 57-64
WriteSnapshot(snapshot) ==
  IF Sortable(snapshot.full_details)
    THEN [raised |-> FALSE, snapshot |-> snapshot,
          file |-> DocumentFile(JsonSnapshot(snapshot,
                                             SortedItems(snapshot.active_policies),
                                             SortedItems(snapshot.full_details)))]
    ELSE [raised |-> TRUE, snapshot |-> snapshot, file |-> TruncatedFile]

capture_policy_snapshot(files, order, now) ==
  WriteSnapshot(Snapshot(scan_documents(NewExtractor, files, order, Str("active")), now))

\* append_to_ledger opening the ledger with 'w' instead of 'a'
append_to_ledger_truncating(lines, event) == <<event>>

\* lines 66-71: the lines of ledger.jsonl after the call
append_to_ledger(lines, event) == Append(lines, event)

\* lines 85-90
RunMetadata(snapshot, now) ==
  [run_id |-> run_id,
   start_time |-> now,
   policies_in_force |-> JsonSimple(snapshot.active_policies),
   policy_count |-> snapshot.policy_count]

\* lines 106-110: the metadata read back, with end_time and success set
FinalMetadata(metadata, now, success) ==
  [run_id |-> metadata.run_id,
   start_time |-> metadata.start_time,
   policies_in_force |-> metadata.policies_in_force,
   policy_count |-> metadata.policy_count,
   end_time |-> now,
   success |-> success]

\* lines 116-121
CompletionEvent(now, success) ==
  [run_id |-> run_id, timestamp |-> now, event |-> "run_complete", success |-> success]

\* line 279 with the test of success left out
should_save_unchecked(success, check_only_arg) == ~check_only_arg

\* line 279
should_save(success, check_only_arg) == success /\ ~check_only_arg

VARIABLES tree, visited, pc,
          builder, check_only, report, registry_file, exit_status,
          extractor, status_filter,
          snapshot_file, ledger, metadata_file, clock, call, steps,
          document, returned

scanVars == <<tree, visited, pc>>

runVars == <<snapshot_file, ledger, metadata_file, clock, call, steps>>

builderVars == <<builder, check_only, report, registry_file, exit_status>>

extractorVars == <<extractor, status_filter>>

parseVars == <<document, returned>>

vars == <<scanVars, builderVars, extractorVars, runVars, parseVars>>

\* neither extract_frontmatter was called on its own
NoParse ==
  /\ document = Unreadable
  /\ returned = [builder |-> <<>>, extractor |-> <<>>]

\* no PipelineRunManager was constructed
NoRun ==
  /\ snapshot_file = NoFile
  /\ ledger = <<>>
  /\ metadata_file = NoFile
  /\ clock = 0
  /\ call = [op |-> "none", raised |-> FALSE]
  /\ steps = 0

\* line 40-44: a fresh builder
NewBuilder ==
  [registry |-> <<>>, duplicates |-> <<>>, errors |-> <<>>, doc_count |-> 0,
   raised |-> FALSE]

NoReport == [success |-> FALSE, duplicates |-> <<>>, errors |-> <<>>]

\* main, lines 269-273, before the scan's first file
InitBuilder ==
  /\ tree \in [Paths -> Files]
  /\ check_only \in BOOLEAN
  /\ visited = <<>>
  /\ builder = NewBuilder
  /\ pc = "scan"
  /\ report = NoReport
  /\ registry_file = NoFile
  /\ exit_status = -1
  /\ extractor = NewExtractor
  /\ status_filter = None
  /\ NoRun
  /\ NoParse

Pending == Paths \ {visited[i] : i \in 1..Len(visited)}

\* lines 161-165: docs/ is walked before plans/; within a root rglob yields
\* the files in any order
NextFile(p) ==
  /\ p \in Pending
  /\ InDocs(p) \/ \A q \in Pending : ~InDocs(q)

\* scan_documents, one iteration of the loop of lines 165-201; an exception
\* leaving it ends main with a traceback and exit status 1
ScanStep ==
  /\ pc = "scan"
  /\ \E p \in Paths :
       /\ NextFile(p)
       /\ builder' = scan_one(builder, tree[p], p)
       /\ visited' = Append(visited, p)
  /\ pc' = IF builder'.raised THEN "raised" ELSE "scan"
  /\ exit_status' = IF builder'.raised THEN 1 ELSE exit_status
  /\ UNCHANGED <<tree, check_only, report, registry_file, extractorVars, runVars, parseVars>>

\* main, lines 275-284, once scan_documents has returned
MainFinish ==
  /\ pc = "scan"
  /\ Pending = {}
  /\ LET r == report_status(builder)
         s == save_registry(builder)
     IN /\ report' = r
        /\ IF should_save(r.success, check_only)
             THEN /\ registry_file' = s.file
                  /\ exit_status' = IF s.raised THEN 1 ELSE 0
             ELSE /\ registry_file' = registry_file
                  /\ exit_status' = IF r.success THEN 0 ELSE 1
  /\ pc' = "exit"
  /\ UNCHANGED <<tree, visited, builder, check_only, extractorVars, runVars, parseVars>>

NextBuilder == ScanStep \/ MainFinish

SpecBuilder == InitBuilder /\ [][NextBuilder]_vars

\* --------------------------------------------- Registry Builder properties
\* what each file declares: its header as the builder's parser reads it
HeaderOfFile == BuilderParsed

ValidFiles ==
  {f \in Files : /\ HeaderOfFile[f].some
                 /\ Str("doc_key") \in DOMAIN HeaderOfFile[f].map
                 /\ validate_frontmatter(HeaderOfFile[f].map, 0) = <<>>}

Header(p) == HeaderOfFile[tree[p]]

DeclaresKey(p) == Header(p).some /\ Str("doc_key") \in DOMAIN Header(p).map

KeyOf(p) == Header(p).map[Str("doc_key")]

PassesValidation(p) == tree[p] \in ValidFiles

\* p was visited before q
Before(p, q) ==
  \E i, j \in 1..Len(visited) : i < j /\ visited[i] = p /\ visited[j] = q

SeqCount(seq, Test(_)) == Cardinality({i \in 1..Len(seq) : Test(seq[i])})

DuplicatesOf(doc_key) == SelectSeq(builder.duplicates, LAMBDA d : d[1] = doc_key)

RegistryPaths(doc_key) ==
  {builder.registry[i].path : i \in {j \in 1..Len(builder.registry) :
                                       builder.registry[j].doc_key = doc_key}}

\* C1 as stated: whenever exactly two documents of the scanned tree declare
\* the same doc_key, the registry holds under it the record of the one visited
\* first, duplicates holds exactly one tuple (doc_key, first path, second path)
\* for it, and report_status returns failure.
C1_AnyTwoSharing ==
  pc = "exit" =>
    \A p, q \in Paths :
      (/\ DeclaresKey(p) /\ DeclaresKey(q) /\ KeyOf(p) = KeyOf(q)
       /\ Before(p, q)
       /\ \A r \in Paths \ {p, q} : DeclaresKey(r) => KeyOf(r) # KeyOf(p))
      => /\ RegistryPaths(KeyOf(p)) = {p}
         /\ DuplicatesOf(KeyOf(p)) = <<<<KeyOf(p), p, q>>>>
         /\ ~report.success

\* C1 amended: whenever two documents that both pass validation share a
\* doc_key, the registry holds under it exactly the record of the
\* first-visited valid document, duplicates holds exactly one tuple
\* (doc_key, first path, later path) for each later valid document with that
\* key and no other tuple for the key, and report_status returns failure.
C1_ValidSharing ==
  pc = "exit" =>
    \A p, q \in Paths :
      (/\ PassesValidation(p) /\ PassesValidation(q) /\ KeyOf(p) = KeyOf(q)
       /\ Before(p, q)
       /\ \A r \in Paths \ {p} : PassesValidation(r) /\ KeyOf(r) = KeyOf(p) => Before(p, r))
      => /\ SeqCount(builder.registry, LAMBDA r : r.doc_key = KeyOf(p)) = 1
         /\ Lookup(builder.registry, KeyOf(p)) = DocumentRecord(Header(p).map, p)
         /\ SeqCount(builder.duplicates, LAMBDA d : d = <<KeyOf(p), p, q>>) = 1
         /\ \A i \in 1..Len(builder.duplicates) :
              builder.duplicates[i][1] = KeyOf(p) =>
                /\ builder.duplicates[i][2] = p
                /\ PassesValidation(builder.duplicates[i][3])
                /\ KeyOf(builder.duplicates[i][3]) = KeyOf(p)
                /\ builder.duplicates[i][3] # p
         /\ Len(DuplicatesOf(KeyOf(p))) =
              Cardinality({r \in Paths \ {p} : PassesValidation(r) /\ KeyOf(r) = KeyOf(p)})
         /\ ~report.success

C1_Witness ==
  /\ pc = "exit"
  /\ \E p, q \in Paths :
       /\ PassesValidation(p) /\ PassesValidation(q) /\ KeyOf(p) = KeyOf(q)
       /\ Before(p, q)
       /\ Header(p).map # Header(q).map
       /\ builder.duplicates = <<<<KeyOf(p), p, q>>>>

BothListsEmpty == builder.duplicates = <<>> /\ builder.errors = <<>>

\* C2: after any scan the entry point reports success (report_status returns
\* True and the process exits with status 0) if and only if duplicates and
\* errors are both empty.
C2_SuccessIffListsEmpty ==
  pc = "exit" =>
    /\ report.success <=> BothListsEmpty
    /\ exit_status = 0 <=> BothListsEmpty

\* C3: the registry file is written only by a run whose scan succeeded and
\* that was not asked for check-only; with check-only or a failed scan the
\* file is left as it was (absent), so no registry built alongside a duplicate
\* or a validation error is persisted.
C3_SaveOnlyOnSuccess ==
  /\ registry_file # NoFile =>
       pc = "exit" /\ ~check_only /\ report.success /\ BothListsEmpty
  /\ pc = "exit" /\ (check_only \/ ~report.success \/ ~BothListsEmpty) =>
       registry_file = NoFile
  /\ pc = "exit" /\ ~check_only /\ BothListsEmpty => registry_file # NoFile

C3_Witness ==
  /\ pc = "exit"
  /\ ~check_only
  /\ builder.registry # <<>>
  /\ builder.duplicates # <<>>
  /\ registry_file = NoFile

ValidPaths == {p \in Paths : PassesValidation(p)}

\* C4: a registry persisted by a run is a function of the tree alone: its
\* entries are exactly the records of the documents that pass validation,
\* one per document, in increasing key order, whatever order the traversal
\* visited them in - so every run over the same tree persists the same content.
C4_PersistedIndependentOfOrder ==
  registry_file.complete =>
    LET object == registry_file.object
    IN /\ Len(object) = Cardinality(ValidPaths)
       /\ {object[i].value : i \in 1..Len(object)} =
            {DocumentRecord(Header(p).map, p) : p \in ValidPaths}
       /\ \A i \in 1..Len(object) : object[i].key = JsonKey(object[i].value.doc_key)
       /\ \A i, j \in 1..Len(object) : i < j => StrLess(object[i].key, object[j].key)

\* a persisted registry whose documents were visited in decreasing key order
C4_Witness ==
  /\ registry_file.complete
  /\ Len(builder.registry) >= 2
  /\ StrLess(builder.registry[2].doc_key, builder.registry[1].doc_key)

RequiredSet == {required_fields[i] : i \in 1..Len(required_fields)}

\* exactly three dot-separated runs of one or more digits
ThreeDigitRuns(s) ==
  \E a, b \in 1..Len(s) :
    /\ 1 < a /\ a + 1 < b /\ b < Len(s)
    /\ s[a] = "." /\ s[b] = "."
    /\ \A i \in 1..Len(s) \ {a, b} : IsDigit(s[i])

\* C5: every record of the registry comes from a document whose header holds
\* the six required fields, a semver of three dot-separated digit runs, a
\* status in active/deprecated/frozen and a contract_type in
\* policy/intent/execution_contract; a visited document with a doc_key that
\* fails a check has no record and has a diagnostic in errors, which for
\* missing fields names every missing field.
C5_RegistryHoldsOnlyValid ==
  /\ \A i \in 1..Len(builder.registry) :
       LET r == builder.registry[i]
           h == Header(r.path)
       IN /\ h.some
          /\ \A f \in RequiredSet : Str(f) \in DOMAIN h.map
          /\ r = DocumentRecord(h.map, r.path)
          /\ r.semver # None /\ ThreeDigitRuns(r.semver)
          /\ r.status \in {Str("active"), Str("deprecated"), Str("frozen")}
          /\ r.contract_type \in {Str("policy"), Str("intent"), Str("execution_contract")}
  /\ \A k \in 1..Len(visited) :
       LET p == visited[k]
           h == Header(p)
           missing == {f \in RequiredSet : Str(f) \notin DOMAIN h.map}
           bad == \/ missing # {}
                  \/ h.map[Str("semver")] = None
                  \/ ~ThreeDigitRuns(h.map[Str("semver")])
                  \/ h.map[Str("status")] \notin {Str("active"), Str("deprecated"), Str("frozen")}
                  \/ h.map[Str("contract_type")] \notin
                       {Str("policy"), Str("intent"), Str("execution_contract")}
       IN DeclaresKey(p) /\ bad =>
            /\ \A i \in 1..Len(builder.registry) : builder.registry[i].path # p
            /\ SeqCount(builder.errors, LAMBDA e : e.path = p) = 1
            /\ missing # {} =>
                 \E i \in 1..Len(builder.errors) :
                   /\ builder.errors[i].path = p
                   /\ builder.errors[i].kind = "missing"
                   /\ {builder.errors[i].detail[j] : j \in 1..Len(builder.errors[i].detail)}
                        = missing

C5_Witness ==
  /\ pc = "exit"
  /\ builder.registry # <<>>
  /\ \E i \in 1..Len(builder.errors) :
       builder.errors[i].kind = "missing" /\ Len(builder.errors[i].detail) >= 2
  /\ \E i \in 1..Len(builder.errors) : builder.errors[i].kind = "semver"

Unclaimed(p) ==
  \A q \in Paths : PassesValidation(q) /\ KeyOf(q) = KeyOf(p) /\ q # p => Before(p, q)

\* C6: no document aborts the scan: no exception leaves scan_documents, the
\* scan ends only after every document was visited, every unreadable or
\* invalid document has its diagnostic in errors and every valid document
\* whose key was already taken has its tuple in duplicates, and every valid
\* document whose key no earlier valid document claimed is in the registry.
C6_ScanNeverAborts ==
  /\ pc # "raised"
  /\ ~builder.raised
  /\ pc = "scan" /\ Pending # {} => \E p \in Paths : NextFile(p)
  /\ pc = "exit" =>
       /\ Pending = {}
       /\ Len(visited) = MaxDocs
       /\ \A p \in Paths :
            /\ ~tree[p].readable =>
                 \E i \in 1..Len(builder.errors) :
                   builder.errors[i] = Error("read", p, <<>>)
            /\ DeclaresKey(p) /\ ~PassesValidation(p) =>
                 \E i \in 1..Len(builder.errors) :
                   builder.errors[i].path = p /\ builder.errors[i].kind # "read"
            /\ PassesValidation(p) /\ Unclaimed(p) =>
                 \E i \in 1..Len(builder.registry) :
                   builder.registry[i] = DocumentRecord(Header(p).map, p)
            /\ PassesValidation(p) /\ ~Unclaimed(p) =>
                 \E i \in 1..Len(builder.duplicates) :
                   builder.duplicates[i][1] = KeyOf(p) /\ builder.duplicates[i][3] = p

\* a finished scan that met an unreadable document first, then an invalid
\* one, and still registered a later document
C6_Witness ==
  /\ pc = "exit"
  /\ ~tree[visited[1]].readable
  /\ \E p \in Paths : DeclaresKey(p) /\ ~PassesValidation(p)
  /\ builder.registry # <<>>
  /\ tree[builder.registry[1].path].readable
  /\ Before(visited[1], builder.registry[1].path)

\* ------------------------------------------------- Version Extractor runs
ExtractorFiles ==
  {Readable(t) : t \in {TextA1, TextA2, TextB, TextNullKey, TextBadSemver,
                        TextMissing, TextPlain}}
  \cup {Unreadable}

\* the values of --status (lines 161-165), None when it is not given
StatusFilters == {None, Str("active"), Str("deprecated"), Str("frozen")}

\* get_doc_versions.main, lines 173-177, before the scan's first file
InitExtractor ==
  /\ tree \in [Paths -> ExtractorFiles]
  /\ status_filter \in StatusFilters
  /\ visited = <<>>
  /\ extractor = NewExtractor
  /\ pc = "scan"
  /\ builder = NewBuilder
  /\ check_only = FALSE
  /\ report = NoReport
  /\ registry_file = NoFile
  /\ exit_status = -1
  /\ NoRun
  /\ NoParse

\* DocumentVersionExtractor.scan_documents, one iteration of the loop of
\* lines 90-114
ExtractStep ==
  /\ pc = "scan"
  /\ \E p \in Paths :
       /\ NextFile(p)
       /\ extractor' = extract_one(extractor, tree[p], p, status_filter)
       /\ visited' = Append(visited, p)
  /\ UNCHANGED <<tree, pc, status_filter, builderVars, runVars, parseVars>>

\* line 116: the loops are over, scan_documents returns count
ExtractReturn ==
  /\ pc = "scan"
  /\ Pending = {}
  /\ pc' = "done"
  /\ UNCHANGED <<tree, visited, extractorVars, builderVars, runVars, parseVars>>

NextExtractor == ExtractStep \/ ExtractReturn

SpecExtractor == InitExtractor /\ [][NextExtractor]_vars

\* -------------------------------------------- Version Extractor properties
\* what a document declares: its header as the extractor's parser reads it
VersionHeader(p) == ExtractorParsed[tree[p]]

\* p carries a doc_key and the five mandatory fields
HasMandatory(p) ==
  /\ VersionHeader(p).some
  /\ \A i \in 1..Len(required) : Str(required[i]) \in DOMAIN VersionHeader(p).map

VersionKey(p) == VersionHeader(p).map[Str("doc_key")]

VersionStatus(p) ==
  IF VersionHeader(p).some THEN Get(VersionHeader(p).map, Str("status")) ELSE None

PassesFilter(p) == Truthy(status_filter) => VersionStatus(p) = status_filter

VersionsOf(doc_key) == SelectSeq(extractor.versions, LAMBDA v : v.doc_key = doc_key)

\* C7 as stated: when several documents carry the same doc_key and the five
\* mandatory fields, the view holds for that key exactly the record of the one
\* visited last, and every one of them was taken without complaint.
C7_LastSeenWins ==
  pc = "done" =>
    \A p, q \in Paths :
      (/\ p # q /\ HasMandatory(p) /\ HasMandatory(q) /\ VersionKey(p) = VersionKey(q)
       /\ \A r \in Paths \ {p} :
            HasMandatory(r) /\ VersionKey(r) = VersionKey(p) => Before(r, p))
      => VersionsOf(VersionKey(p)) = <<DocumentVersion(VersionHeader(p).map, p)>>

\* C7 amended: when several documents carry the same doc_key and the five
\* mandatory fields and pass the status filter (every document does when no
\* filter is given), the view holds for that key exactly the record of the
\* last visited of them; all of them are counted, none is rejected.
C7_LastRetainedWins ==
  pc = "done" =>
    /\ \A p, q \in Paths :
         (/\ p # q /\ HasMandatory(p) /\ HasMandatory(q) /\ VersionKey(p) = VersionKey(q)
          /\ PassesFilter(p) /\ PassesFilter(q)
          /\ \A r \in Paths \ {p} :
               HasMandatory(r) /\ PassesFilter(r) /\ VersionKey(r) = VersionKey(p)
                 => Before(r, p))
         => VersionsOf(VersionKey(p)) = <<DocumentVersion(VersionHeader(p).map, p)>>
    /\ extractor.count = Cardinality({p \in Paths : HasMandatory(p) /\ PassesFilter(p)})

C7_Witness ==
  /\ pc = "done"
  /\ \E p, q \in Paths :
       /\ HasMandatory(p) /\ HasMandatory(q) /\ VersionKey(p) = VersionKey(q)
       /\ PassesFilter(p) /\ PassesFilter(q)
       /\ Before(q, p)
       /\ VersionHeader(p).map # VersionHeader(q).map
       /\ VersionsOf(VersionKey(p)) = <<DocumentVersion(VersionHeader(p).map, p)>>

\* every retained record has the requested status
C8_RetainedMatch ==
  Truthy(status_filter) =>
    \A i \in 1..Len(extractor.versions) :
      /\ extractor.versions[i].status = status_filter
      /\ VersionStatus(extractor.versions[i].path) = status_filter

\* visiting a document of another status leaves the view as it was
C8_OtherStatusSkipped ==
  \A p \in Paths :
    (/\ visited' = Append(visited, p)
     /\ Truthy(status_filter)
     /\ VersionStatus(p) # status_filter)
    => extractor' = extractor

\* C8: with a status filter s every retained record has status s at every
\* point of the scan, and the visit of a document whose status differs from s
\* changes nothing in the view: it neither overwrites nor removes an entry.
C8_FilterExactDuringScan == [](C8_RetainedMatch) /\ [][C8_OtherStatusSkipped]_vars

\* an entry of the requested status survived the later visit of a document
\* with the same key and another status
C8_Witness ==
  /\ pc = "done"
  /\ Truthy(status_filter)
  /\ \E p, q \in Paths :
       /\ HasMandatory(p) /\ HasMandatory(q) /\ VersionKey(p) = VersionKey(q)
       /\ VersionStatus(p) = status_filter
       /\ VersionStatus(q) # status_filter
       /\ Before(p, q)
       /\ VersionsOf(VersionKey(p)) = <<DocumentVersion(VersionHeader(p).map, p)>>

\* --------------------------------------------------- Pipeline run manager
\* the documents a run may find: an active document of key a (two when it is
\* at two paths), a deprecated one of key a, an active one whose doc_key is
\* null, one without header
RunFiles ==
  {Readable(t) : t \in {TextA1, TextA2, TextNullKey, TextPlain}}

\* the orders in which the scan of lines 86-90 may visit the files
Orders ==
  {o \in [1..MaxDocs -> Paths] :
     /\ \A i, j \in 1..MaxDocs : i # j => o[i] # o[j]
     /\ \A i, j \in 1..MaxDocs : i < j /\ InDocs(o[j]) => InDocs(o[i])}

\* lines 24-28: a manager for run_id on a run directory that does not exist
\* yet; datetime.utcnow() reads clock, and two readings differ
InitRun ==
  /\ tree \in [Paths -> RunFiles]
  /\ snapshot_file = NoFile
  /\ ledger = <<>>
  /\ metadata_file = NoFile
  /\ clock = 0
  /\ call = [op |-> "__init__", raised |-> FALSE]
  /\ steps = 0
  /\ visited = <<>>
  /\ pc = "run"
  /\ builder = NewBuilder
  /\ check_only = FALSE
  /\ report = NoReport
  /\ registry_file = NoFile
  /\ exit_status = -1
  /\ extractor = NewExtractor
  /\ status_filter = None
  /\ NoParse

Idle == UNCHANGED <<visited, pc, builderVars, extractorVars, parseVars>>

Captured(r, op) ==
  /\ snapshot_file' = r.file
  /\ call' = [op |-> op, raised |-> r.raised]

\* capture_policy_snapshot called on its own, lines 30-64
CaptureCall ==
  /\ pc = "run" /\ steps < MaxSteps
  /\ \E order \in Orders :
       Captured(capture_policy_snapshot(tree, order, clock), "capture_policy_snapshot")
  /\ clock' = clock + 1
  /\ steps' = steps + 1
  /\ UNCHANGED <<tree, ledger, metadata_file>>
  /\ Idle

\* append_to_ledger called with an event of the pipeline's own, lines 66-71
AppendCall ==
  /\ pc = "run" /\ steps < MaxSteps
  /\ ledger' = append_to_ledger(ledger,
                 [run_id |-> run_id, timestamp |-> clock, event |-> "task_complete"])
  /\ call' = [op |-> "append_to_ledger", raised |-> FALSE]
  /\ clock' = clock + 1
  /\ steps' = steps + 1
  /\ UNCHANGED <<tree, snapshot_file, metadata_file>>
  /\ Idle

\* lines 81-94, with r what line 79 left
Initialized(r) ==
  /\ Captured(r, "initialize_run")
  /\ IF r.raised
       THEN UNCHANGED <<ledger, metadata_file>>
       ELSE /\ ledger' = append_to_ledger(ledger,
                           JsonSnapshot(r.snapshot, r.snapshot.active_policies,
                                        r.snapshot.full_details))
            /\ metadata_file' = DocumentFile(RunMetadata(r.snapshot, clock + 1))

\* initialize_run, lines 73-101: an exception in capture_policy_snapshot ends it
InitializeCall ==
  /\ pc = "run" /\ steps < MaxSteps
  /\ \E order \in Orders :
       Initialized(capture_policy_snapshot(tree, order, clock))
  /\ clock' = clock + 2
  /\ steps' = steps + 1
  /\ UNCHANGED tree
  /\ Idle

\* finalize_run starting from an empty record when metadata.json is missing
FinalizeCall_without_metadata ==
  /\ pc = "run" /\ steps < MaxSteps
  /\ \E success \in BOOLEAN :
       /\ metadata_file' =
            DocumentFile(IF metadata_file.exists
                           THEN FinalMetadata(metadata_file.object[1], clock, success)
                           ELSE [end_time |-> clock, success |-> success])
       /\ ledger' = append_to_ledger(ledger, CompletionEvent(clock, success))
       /\ call' = [op |-> "finalize_run", raised |-> FALSE]
       /\ clock' = clock + 1
  /\ steps' = steps + 1
  /\ UNCHANGED <<tree, snapshot_file>>
  /\ Idle

\* finalize_run, lines 103-124: open() raises when metadata.json is missing
FinalizeCall ==
  /\ pc = "run" /\ steps < MaxSteps
  /\ \E success \in BOOLEAN :
       IF metadata_file.exists
         THEN /\ metadata_file' =
                   DocumentFile(FinalMetadata(metadata_file.object[1], clock, success))
              /\ ledger' = append_to_ledger(ledger, CompletionEvent(clock, success))
              /\ call' = [op |-> "finalize_run", raised |-> FALSE]
              /\ clock' = clock + 1
         ELSE /\ call' = [op |-> "finalize_run", raised |-> TRUE]
              /\ UNCHANGED <<metadata_file, ledger, clock>>
  /\ steps' = steps + 1
  /\ UNCHANGED <<tree, snapshot_file>>
  /\ Idle

\* between two calls a document of the tree is rewritten; before the first
\* snapshot nothing on disk depends on the tree, so that an edit then is a
\* run started on another tree
EditTree ==
  /\ pc = "run" /\ steps < MaxSteps
  /\ snapshot_file.exists
  /\ \E p \in Paths, f \in RunFiles :
       /\ f # tree[p]
       /\ tree' = [tree EXCEPT ![p] = f]
  /\ steps' = steps + 1
  /\ UNCHANGED <<snapshot_file, ledger, metadata_file, clock, call>>
  /\ Idle

NextRun == CaptureCall \/ AppendCall \/ InitializeCall \/ FinalizeCall \/ EditTree

SpecRun == InitRun /\ [][NextRun]_vars

\* ------------------------------------------------------- Header parsers
\* a builder and an extractor are constructed and one document is on disk
InitParse ==
  /\ document \in ParseFiles
  /\ returned = [builder |-> <<>>, extractor |-> <<>>]
  /\ tree = [p \in Paths |-> document]
  /\ visited = <<>>
  /\ pc = "parse"
  /\ builder = NewBuilder
  /\ check_only = FALSE
  /\ report = NoReport
  /\ registry_file = NoFile
  /\ exit_status = -1
  /\ extractor = NewExtractor
  /\ status_filter = None
  /\ NoRun

\* what extract_frontmatter of the builder leaves: the value returned and
\* the diagnostics appended to errors
BuilderReturned(x) ==
  /\ returned' = [returned EXCEPT !.builder = <<x.metadata>>]
  /\ builder' = [builder EXCEPT !.errors = @ \o x.errors]

\* DocRegistryBuilder.extract_frontmatter called on the document, lines 46-91
BuilderExtract ==
  /\ pc = "parse"
  /\ returned.builder = <<>>
  /\ BuilderReturned(DocRegistryBuilder_extract_frontmatter(document, 1))
  /\ UNCHANGED <<scanVars, check_only, report, registry_file, exit_status,
                 extractorVars, runVars, document>>

\* DocumentVersionExtractor.extract_frontmatter called on the document,
\* lines 43-67
ExtractorExtract ==
  /\ pc = "parse"
  /\ returned.extractor = <<>>
  /\ returned' = [returned EXCEPT
                    !.extractor = <<DocumentVersionExtractor_extract_frontmatter(document)>>]
  /\ UNCHANGED <<scanVars, builderVars, extractorVars, runVars, document>>

NextParse == BuilderExtract \/ ExtractorExtract

SpecParse == InitParse /\ [][NextParse]_vars

\* ------------------------------------------------ Header parser properties
\* C12: once both parsers have read the document, the extractor's
\* extract_frontmatter has returned what the builder's has: no mapping, or
\* the same mapping of keys to strings or null.
C12_ParsersAgree ==
  (returned.builder # <<>> /\ returned.extractor # <<>>)
    => returned.extractor = returned.builder

\* ------------------------------------------------ Run manager properties
\* C9: once a policy snapshot has been written for the run_id, no later call
\* changes the stored policy_snapshot.json.
C9_SnapshotNeverMutated ==
  [][snapshot_file.complete => snapshot_file' = snapshot_file]_vars

\* C10: every call leaves the ledger it found as a prefix of the ledger it
\* leaves - no event is removed, rewritten or reordered - and a call of
\* append_to_ledger adds exactly one event at the end.
C10_LedgerAppendOnly ==
  [][/\ Len(ledger') >= Len(ledger)
     /\ SubSeq(ledger', 1, Len(ledger)) = ledger
     /\ (call'.op = "append_to_ledger" /\ clock' # clock) => Len(ledger') = Len(ledger) + 1]_vars

\* a ledger that grew by initialize_run, finalize_run and append_to_ledger
C10_Witness ==
  /\ Len(ledger) = 3
  /\ ledger[1].event = "policy_snapshot"
  /\ ledger[2].event = "run_complete"
  /\ ledger[3].event = "task_complete"
  /\ call.op = "append_to_ledger"

\* metadata.json holds a record that finalize_run has stamped
Finalized(file) == file.exists /\ "end_time" \in DOMAIN file.object[1]

\* C11: the run metadata changes only twice: it is created where there was
\* none, and a created, not yet finalized record is finalized, which adds
\* end_time and success and keeps the four fields of the creation; no call
\* writes it again or changes it after finalize.
C11_MetadataMutatedTwice ==
  [][metadata_file' # metadata_file =>
       \/ /\ ~metadata_file.exists
          /\ metadata_file'.exists /\ ~Finalized(metadata_file')
       \/ /\ metadata_file.exists /\ ~Finalized(metadata_file)
          /\ Finalized(metadata_file')
          /\ \A k \in {"run_id", "start_time", "policies_in_force", "policy_count"} :
               metadata_file'.object[1][k] = metadata_file.object[1][k]]_vars

\* -------------------------------------------------------- Status report
\* C13: the report of a finished scan lists every duplicate conflict of the
\* duplicates list and every diagnostic of the errors list, also when both
\* lists hold something.
C13_ReportListsEveryProblem ==
  pc = "exit" =>
    /\ report.duplicates = builder.duplicates
    /\ report.errors = builder.errors

\* ------------------------------------------------------ Snapshot contents
\* C14: in every snapshot capture_policy_snapshot has stored, and in every
\* policy_snapshot event of the ledger, policy_count is the number of entries
\* of active_policies and of full_details.
C14_PolicyCountIsMappingSize ==
  /\ snapshot_file.complete =>
       /\ snapshot_file.object[1].policy_count = Len(snapshot_file.object[1].active_policies)
       /\ snapshot_file.object[1].policy_count = Len(snapshot_file.object[1].full_details)
  /\ \A i \in 1..Len(ledger) :
       ledger[i].event = "policy_snapshot" =>
         /\ ledger[i].policy_count = Len(ledger[i].active_policies)
         /\ ledger[i].policy_count = Len(ledger[i].full_details)

\* ------------------------------------------------------- Ledger ordering
\* every run_complete event of the ledger comes after a policy_snapshot
\* event of the same run_id
CompletionsFollowSnapshot ==
  \A i \in 1..Len(ledger) :
    ledger[i].event = "run_complete" =>
      \E j \in 1..(i - 1) :
        /\ ledger[j].event = "policy_snapshot"
        /\ ledger[j].run_id = ledger[i].run_id

\* a call of finalize_run that finds no metadata.json raises and leaves the
\* ledger and the metadata as they were
FinalizeWithoutMetadata ==
  (/\ call'.op = "finalize_run" /\ steps' # steps /\ tree' = tree
   /\ ~metadata_file.exists)
    => /\ call'.raised
       /\ ledger' = ledger
       /\ metadata_file' = metadata_file

\* C15: after any sequence of calls every run_complete event of the ledger is
\* preceded by a policy_snapshot event of the same run_id, and a finalize_run
\* on a run whose metadata was never written (before initialize_run, or after
\* an initialize_run that failed) appends nothing and writes nothing.
C15_CompletionAfterSnapshot ==
  [](CompletionsFollowSnapshot) /\ [][FinalizeWithoutMetadata]_vars

\* finalize_run was attempted before initialize_run and raised, then
\* initialize_run and finalize_run went through: three calls, the snapshot
\* taken at the first clock reading on a tree of active documents that no
\* edit can have produced since
C15_Witness ==
  /\ steps = 3 /\ clock = 3
  /\ \A p \in Paths : tree[p] = Readable(TextA1)
  /\ Len(ledger) = 2
  /\ ledger[1].event = "policy_snapshot" /\ ledger[1].timestamp = 0
  /\ ledger[1].policy_count = MaxDocs
  /\ ledger[2].event = "run_complete"
  /\ call = [op |-> "finalize_run", raised |-> FALSE]
  /\ Finalized(metadata_file)
====
